---- MODULE Spec2Model ----
(***************************************************************************)
(* Scroll-driven visualization pages (inkeaton/DV).                        *)
(*                                                                         *)
(* The model covers the scroll controller (section2/scroll-controller.js), *)
(* the scrollytelling visualization state machine (visualization.js, kept  *)
(* in section2/plots/highlight-europe.js from line 72 on), the plot        *)
(* renderers it calls, and the observers of the four section-1 plots.      *)
(*                                                                         *)
(* Lengths are kept in half pixels wherever the code halves a length       *)
(* (innerHeight * 0.5, (top + bottom) / 2): every comparison of the code   *)
(* is made on both sides multiplied by two, so that it stays in Int.       *)
(***************************************************************************)
EXTENDS Integers, Sequences, FiniteSets, TLC

\* ------------------------------------------------------------------------
\* Bounds of the model
\* ------------------------------------------------------------------------
\* Rectangle coordinates handed to pickActiveStep: -MaxNear..MaxNear around
\* the top of the viewport, and the two far coordinates -CoordFar, CoordFar.
CoordFar == 24000
MaxNear == 1
\* innerHeight ranges over 0..MaxInnerHeight when the pure resolver is checked.
MaxInnerHeight == 1
\* Number of .scrolly-step elements handed to the pure resolver.
MaxSteps == 2

\* ------------------------------------------------------------------------
\* Values of the language
\* ------------------------------------------------------------------------
\* A number is carried as the one-element tuple <<n>>, so that NaN and
\* +Infinity are values that can be compared with it.
Num(n) == <<n>>
Val(x) == x[1]
NaN == <<>>
Infinity == <<1, 0>>
\* String(undefined), what parseInt sees when the attribute is absent.
Undefined == <<"u", "n", "d", "e", "f", "i", "n", "e", "d">>

\* Number.isFinite(x) for the values a parseInt result can take.
IsFinite(x) == x # NaN /\ x # Infinity

Abs(x) == IF x < 0 THEN -x ELSE x

DigitChars == <<"0", "1", "2", "3", "4", "5", "6", "7", "8", "9">>

IsDigit(c) == \E d \in 1..10 : DigitChars[d] = c

DigitVal(c) == (CHOOSE d \in 1..10 : DigitChars[d] = c) - 1

RECURSIVE SkipSpace(_)
SkipSpace(s) ==
    IF s # <<>> /\ Head(s) = " " THEN SkipSpace(Tail(s)) ELSE s

RECURSIVE DigitPrefix(_, _, _)
\* Value of the longest prefix of decimal digits of s; NaN when it is empty.
DigitPrefix(s, acc, seen) ==
    IF s # <<>> /\ IsDigit(Head(s))
    THEN DigitPrefix(Tail(s), acc * 10 + DigitVal(Head(s)), TRUE)
    ELSE IF seen THEN Num(acc) ELSE NaN

\* parseInt(str, 10) of a data-step attribute, a sequence of characters:
\* leading blanks, an optional sign, then the longest prefix of digits.
ParseInt(str) ==
    LET t == SkipSpace(str)
        neg == t # <<>> /\ Head(t) = "-"
        body == IF t # <<>> /\ Head(t) \in {"-", "+"} THEN Tail(t) ELSE t
        v == DigitPrefix(body, 0, FALSE)
    IN IF v = NaN THEN NaN ELSE IF neg THEN Num(-Val(v)) ELSE v

\* ------------------------------------------------------------------------
\* pickActiveStep (scroll-controller.js 33-68)
\* ------------------------------------------------------------------------
\* The weight added to a candidate that does not contain the viewport middle.
NearestPenalty == 10000

\* rect.top <= viewportMiddle && rect.bottom >= viewportMiddle
containsMiddle(rect, ih) == 2 * rect.top <= ih /\ 2 * rect.bottom >= ih

\* distance2 with the far edge taken for a region above the middle.
distance2_FarEdge(rect, ih) ==
    IF containsMiddle(rect, ih) THEN Abs((rect.top + rect.bottom) - ih)
    ELSE IF 2 * rect.bottom < ih THEN ih - 2 * rect.top
    ELSE 2 * rect.top - ih

\* Twice the `distance` of the loop body.
distance2(rect, ih) ==
    IF containsMiddle(rect, ih) THEN Abs((rect.top + rect.bottom) - ih)
    ELSE IF 2 * rect.bottom < ih THEN ih - 2 * rect.bottom
    ELSE 2 * rect.top - ih

\* Twice the `weightedDistance` of the loop body.
weightedDistance2(rect, ih) ==
    IF containsMiddle(rect, ih) THEN distance2(rect, ih)
    ELSE distance2(rect, ih) + 2 * NearestPenalty

\* weightedDistance < bestDistance, bestDistance starting at +Infinity.
LessThanBest(w, best) == IF best = Infinity THEN TRUE ELSE w < Val(best)

RECURSIVE PickLoop(_, _, _, _)
\* The for-of loop: els is what is left of `steps`.
PickLoop(els, ih, bestStep, bestDistance) ==
    IF els = <<>> THEN bestStep
    ELSE LET stepEl == Head(els)
             stepNum == ParseInt(stepEl.dataStep)
             w == weightedDistance2(stepEl, ih)
         IN IF ~IsFinite(stepNum) THEN PickLoop(Tail(els), ih, bestStep, bestDistance)
            ELSE IF LessThanBest(w, bestDistance)
                 THEN PickLoop(Tail(els), ih, Val(stepNum), Num(w))
                 ELSE PickLoop(Tail(els), ih, bestStep, bestDistance)

\* els: the .scrolly-step elements in document order, each with its data-step
\* attribute and the top/bottom of its getBoundingClientRect(); ih: innerHeight.
pickActiveStep(els, ih) ==
    IF Len(els) = 0 THEN 0 ELSE PickLoop(els, ih, 0, Infinity)

\* ------------------------------------------------------------------------
\* State
\* ------------------------------------------------------------------------
VARIABLES
    rects,         \* the .scrolly-step elements: data-step, top and bottom of the rect
    innerHeight,   \* window.innerHeight
    pageYOffset,   \* window.pageYOffset
    picked,        \* the value pickActiveStep returned, NaN before it is called
    containerRect, \* container.getBoundingClientRect() of the visualization
    bodyClass,     \* the class attribute of document.body, as the set of its classes
    plots,         \* the section-1 plots: container content, observers
    shell,         \* the header's theme switch: its icon, the stored preference
    load,          \* the initializers: containers present, position, import() calls
    force,         \* the force-layout page (prova_force/script.js)
    ctl,           \* initScrollController: currentStep, ticking, listeners, classes
    viz,           \* initVisualization: currentStep, transitionToken, layers, ...
    win,           \* the window: animation-frame callback list, active timers
    hist           \* history: calls made, the last operation, events dispatched

vars == <<rects, innerHeight, pageYOffset, picked, containerRect, bodyClass, plots,
          shell, load, force, ctl, viz, win, hist>>

\* The state a handler works on.  The actions read it from the variables,
\* run the handler over it and write the outcome back.
World ==
    [env |-> [rects |-> rects, innerHeight |-> innerHeight, pageYOffset |-> pageYOffset,
              containerRect |-> containerRect, bodyClass |-> bodyClass],
     plots |-> plots, shell |-> shell, load |-> load, ctl |-> ctl, viz |-> viz,
     win |-> win, hist |-> hist]

Commit(w) ==
    /\ rects' = w.env.rects
    /\ innerHeight' = w.env.innerHeight
    /\ pageYOffset' = w.env.pageYOffset
    /\ containerRect' = w.env.containerRect
    /\ bodyClass' = w.env.bodyClass
    /\ plots' = w.plots
    /\ shell' = w.shell
    /\ load' = w.load
    /\ UNCHANGED force
    /\ ctl' = w.ctl
    /\ viz' = w.viz
    /\ win' = w.win
    /\ hist' = w.hist

\* ------------------------------------------------------------------------
\* The resolver on its own: any rectangles, any viewport height
\* ------------------------------------------------------------------------
Coords == {-CoordFar, CoordFar} \cup (-MaxNear..MaxNear)

\* The extents a rect can have.
Regions == {c \in Coords \X Coords : c[1] <= c[2]}

\* n step elements: the i-th has the extent region[i], and carries
\* data-step="i" when numeric[i], no data-step attribute otherwise.
StepEls(n, region, numeric) ==
    [i \in 1..n |->
        [dataStep |-> IF numeric[i] THEN <<DigitChars[i + 1]>> ELSE Undefined,
         top |-> region[i][1], bottom |-> region[i][2]]]

InitPick ==
    /\ \E n \in 0..MaxSteps :
          \E region \in [1..n -> Regions], numeric \in [1..n -> BOOLEAN] :
             rects = StepEls(n, region, numeric)
    /\ innerHeight \in 0..MaxInnerHeight
    /\ pageYOffset = 0
    /\ picked = NaN
    /\ containerRect = [width |-> 0, height |-> 0]
    /\ bodyClass = {}
    /\ plots = <<>>
    /\ shell = [icon |-> "light_mode", stored |-> ""]
    /\ load = [containers |-> {}, phase |-> <<>>, imports |-> 0]
    /\ force = <<>>
    /\ ctl = [listening |-> FALSE]
    /\ viz = [listening |-> FALSE]
    /\ win = [rafQueue |-> <<>>, timers |-> {}, console |-> <<>>, exception |-> FALSE]
    /\ hist = [calls |-> 0]

Pick ==
    /\ picked = NaN
    /\ picked' = Num(pickActiveStep(rects, innerHeight))
    /\ UNCHANGED <<rects, innerHeight, pageYOffset, containerRect, bodyClass, plots,
                   shell, load, force, ctl, viz, win, hist>>

NextPick == Pick

SpecPick == InitPick /\ [][NextPick]_vars

\* ------------------------------------------------------------------------
\* The scrollytelling visualization (visualization.js,
\* section2/plots/highlight-europe.js 96-288) and its plot renderers
\* ------------------------------------------------------------------------
\* Most transitionToStep calls a run of the model makes.
MaxCalls == 2
\* The steps the page asks for: 0..MaxStepArg (1..6 have a view of their own).
MaxStepArg == 7

\* margin.left + margin.right, margin.top + margin.bottom
MarginX == 100
MarginY == 100

\* getComputedStyle(document.body).getPropertyValue('--md-sys-color-...'): the
\* palette the stylesheet gives the body with the classes it has now.
getComputedStyle(w) == IF "dark-theme" \in w.env.bodyClass THEN "dark" ELSE "light"

\* getColors() of the visualization.
getColors(w) == getComputedStyle(w)

\* An element appended to a layer.  by: the renderer that appended it;
\* kind: its tag and class; innerWidth, primary: the width and the theme
\* colour it was drawn with; anim: 0, or the time in ms (delay + duration)
\* at which the D3 transition scheduled on it ends.  step and call are
\* history: the step it was drawn for and the number of the
\* transitionToStep call that drew it.
Element(w, by, kind, anim) ==
    [by |-> by, kind |-> kind, anim |-> anim,
     innerWidth |-> w.viz.innerWidth, primary |-> getColors(w),
     step |-> w.hist.drawing.step, call |-> w.hist.drawing.call]

\* selection.append / selection.join on one of the three layers.
AppendTo(w, layer, el) ==
    [w EXCEPT !.viz.layers[layer] = @ \cup {el}]

\* clearLayers without the removal of the annotation layer.
clearLayers_KeepAnnotations(w) ==
    [w EXCEPT !.viz.layers.axisGroup = {}, !.viz.layers.dataGroup = {}]

clearLayers(w) ==
    [w EXCEPT !.viz.layers =
        [axisGroup |-> {}, dataGroup |-> {}, annotationGroup |-> {}]]

\* plots/scatter.js: clear, two axes and two axis labels, the circles; the
\* radius transition only when animate.
renderScatter(w, animate) ==
    LET w1 == clearLayers(w)
        w2 == AppendTo(w1, "axisGroup", Element(w1, "renderScatter", "axis", 0))
        w3 == AppendTo(w2, "axisGroup", Element(w2, "renderScatter", "axis-label", 0))
    IN AppendTo(w3, "dataGroup", Element(w3, "renderScatter", "circle", IF animate THEN 650 ELSE 0))

\* plots/highlight-europe.js 3-50: a transition on every circle of the data
\* layer, the country labels removed and joined anew with a fade-in.
highlightEurope(w) ==
    LET w1 == [w EXCEPT !.viz.layers.dataGroup =
                   {IF e.kind = "circle" THEN [e EXCEPT !.anim = 500] ELSE e : e \in @}]
        w2 == [w1 EXCEPT !.viz.layers.annotationGroup =
                   {e \in @ : e.kind # "country-label"}]
    IN AppendTo(w2, "annotationGroup", Element(w2, "highlightEurope", "country-label", 500))

\* plots/histogram.js (unnamed/part_001)
renderHistogram(w) ==
    LET w1 == clearLayers(w)
        w2 == AppendTo(w1, "axisGroup", Element(w1, "renderHistogram", "axis", 0))
        w3 == AppendTo(w2, "axisGroup", Element(w2, "renderHistogram", "axis-label", 0))
    IN AppendTo(w3, "dataGroup", Element(w3, "renderHistogram", "hist-bar", 600))

\* plots/comparison.js
renderComparison(w) ==
    LET w1 == clearLayers(w)
        w2 == AppendTo(w1, "axisGroup", Element(w1, "renderComparison", "axis", 0))
        w3 == AppendTo(w2, "dataGroup", Element(w2, "renderComparison", "comp-bar", 600))
    IN AppendTo(w3, "annotationGroup", Element(w3, "renderComparison", "bar-label", 900))

\* plots/trend.js: clear, axes and labels, area, line, points, and the
\* COVID annotation (trendData has a 2020 point).
renderTrendLine(w) ==
    LET w1 == clearLayers(w)
        w2 == AppendTo(w1, "axisGroup", Element(w1, "renderTrendLine", "axis", 0))
        w3 == AppendTo(w2, "axisGroup", Element(w2, "renderTrendLine", "axis-label", 0))
        w4 == AppendTo(w3, "dataGroup", Element(w3, "renderTrendLine", "trend-area", 800))
        w5 == AppendTo(w4, "dataGroup", Element(w4, "renderTrendLine", "trend-line", 1500))
        w6 == AppendTo(w5, "dataGroup", Element(w5, "renderTrendLine", "trend-point", 1800))
    IN AppendTo(w6, "annotationGroup", Element(w6, "renderTrendLine", "covid-label", 2100))

\* plots/summary.js (unnamed/part_002): the trend view plus a headline.
renderSummary(w) ==
    LET w1 == renderTrendLine(w)
    IN AppendTo(w1, "annotationGroup", Element(w1, "renderSummary", "headline", 0))

\* ------------------------------------------------------------------------
\* The window: timers and animation-frame callbacks
\* ------------------------------------------------------------------------
\* The least positive integer outside used.  A handle is only ever compared
\* with the handles the program still holds, so the handles are kept unique
\* among those instead of growing without bound.
FreshHandle(used) == CHOOSE h \in 1..(Cardinality(used) + 1) :
                        h \notin used /\ \A k \in 1..(h - 1) : k \in used

RafIds(w) == {w.win.rafQueue[i].id : i \in 1..Len(w.win.rafQueue)}

\* window.requestAnimationFrame(cb): the handle it returns and the new list.
NextRafId(w) == FreshHandle(RafIds(w) \cup {w.viz.resizeRaf})

requestAnimationFrame(w, cb) ==
    [w EXCEPT !.win.rafQueue = Append(@, [id |-> NextRafId(w), cb |-> cb])]

\* window.cancelAnimationFrame(id)
cancelAnimationFrame(w, id) ==
    LET keep(e) == e.id # id
    IN [w EXCEPT !.win.rafQueue = SelectSeq(@, keep)]

\* window.clearTimeout(id)
clearTimeout(w, id) ==
    [w EXCEPT !.win.timers = {t \in @ : t.id # id}]

\* ------------------------------------------------------------------------
\* Cancellation and step transitions (highlight-europe.js 183-268)
\* ------------------------------------------------------------------------
RECURSIVE ClearAll(_, _)
\* for (const id of pendingTimeouts) window.clearTimeout(id)
ClearAll(w, ids) ==
    IF ids = {} THEN w
    ELSE LET id == CHOOSE i \in ids : TRUE
         IN ClearAll(clearTimeout(w, id), ids \ {id})

\* svg.selectAll('*').interrupt(): every transition on an element of the svg
\* is stopped and the pending ones are cancelled.
interruptAll(w) ==
    [w EXCEPT !.viz.layers =
        [l \in DOMAIN @ |-> {[e EXCEPT !.anim = 0] : e \in @[l]}]]

\* cancelPendingWork without the interrupt of the running transitions.
cancelPendingWork_NoInterrupt(w) ==
    [ClearAll(w, w.viz.pendingTimeouts) EXCEPT !.viz.pendingTimeouts = {}]

\* cancelPendingWork forgetting the ids without clearing the timers.
cancelPendingWork_KeepTimers(w) ==
    interruptAll([w EXCEPT !.viz.pendingTimeouts = {}])

cancelPendingWork(w) ==
    LET w1 == ClearAll(w, w.viz.pendingTimeouts)
        w2 == [w1 EXCEPT !.viz.pendingTimeouts = {}]
    IN interruptAll(w2)

\* schedule(fn, ms, tokenAtSchedule): the timer keeps the closure's captures.
\* call and step are history: the call that scheduled it and its step.
schedule(w, fn, ms, tokenAtSchedule) ==
    LET id == FreshHandle({t.id : t \in w.win.timers} \cup w.viz.pendingTimeouts)
        timer == [id |-> id, fn |-> fn, ms |-> ms, tokenAtSchedule |-> tokenAtSchedule,
                  call |-> w.hist.drawing.call, step |-> w.hist.drawing.step]
    IN [w EXCEPT !.win.timers = @ \cup {timer},
                 !.viz.pendingTimeouts = @ \cup {id}]

\* The switch with case 6 drawing the summary at once instead of scheduling it.
RenderStep_SummaryAtOnce(w, step, token) ==
    CASE step = 1 -> renderScatter(w, TRUE)
      [] step = 2 -> highlightEurope(renderScatter(w, FALSE))
      [] step = 3 -> renderHistogram(w)
      [] step = 4 -> renderComparison(w)
      [] step = 5 -> renderTrendLine(w)
      [] step = 6 -> renderSummary(w)
      [] OTHER -> renderScatter(w, TRUE)

\* The switch of transitionToStep, after the bookkeeping before it.
RenderStep(w, step, token) ==
    CASE step = 1 -> renderScatter(w, TRUE)
      [] step = 2 -> highlightEurope(renderScatter(w, FALSE))
      [] step = 3 -> renderHistogram(w)
      [] step = 4 -> renderComparison(w)
      [] step = 5 -> renderTrendLine(w)
      [] step = 6 -> schedule(w, "renderSummary", 0, token)
      [] OTHER -> renderScatter(w, TRUE)

\* transitionToStep as it was before the token and the cancellation: it only
\* records the step and renders.
transitionToStep_NoInvalidation(w, step) ==
    LET w1 == [w EXCEPT !.hist.calls = @ + 1, !.hist.requested = step]
        w3 == [w1 EXCEPT !.viz.currentStep = step,
                         !.hist.drawing = [step |-> step, call |-> w1.hist.calls]]
    IN RenderStep(w3, step, w3.viz.transitionToken)

\* transitionToStep with the token left as it is for a re-render of the step
\* that is already current.
transitionToStep_TokenKeptOnRerender(w, step) ==
    LET w1 == [w EXCEPT !.viz.transitionToken =
                            IF step = w.viz.currentStep THEN @ ELSE @ + 1,
                        !.hist.calls = @ + 1, !.hist.requested = step]
        token == w1.viz.transitionToken
        w2 == cancelPendingWork(w1)
        w3 == [w2 EXCEPT !.viz.currentStep = step,
                         !.hist.drawing = [step |-> step, call |-> w1.hist.calls]]
    IN RenderStep(w3, step, token)

transitionToStep(w, step) ==
    LET w1 == [w EXCEPT !.viz.transitionToken = @ + 1,
                        !.hist.calls = @ + 1, !.hist.requested = step]
        token == w1.viz.transitionToken
        w2 == cancelPendingWork(w1)
        w3 == [w2 EXCEPT !.viz.currentStep = step,
                         !.hist.drawing = [step |-> step, call |-> w1.hist.calls]]
    IN RenderStep(w3, step, token)

\* The closure schedule() hands to setTimeout, run for timer t.  fnRan is
\* history: whether the closure went on to call fn.
TimerCallback(w, t) ==
    LET w1 == [w EXCEPT !.viz.pendingTimeouts = @ \ {t.id}]
    IN IF t.tokenAtSchedule # w1.viz.transitionToken
       THEN [w1 EXCEPT !.hist.fnRan = FALSE]
       ELSE renderSummary([w1 EXCEPT !.hist.fnRan = TRUE,
                                     !.hist.drawing = [step |-> t.step, call |-> t.call]])

\* resize(): the new size, then one re-render on the next animation frame.
resize(w) ==
    LET rect == w.env.containerRect
        w1 == [w EXCEPT !.viz.width = rect.width, !.viz.height = rect.height,
                        !.viz.innerWidth = rect.width - MarginX,
                        !.viz.innerHeight = rect.height - MarginY]
        w2 == IF w1.viz.resizeRaf # 0 THEN cancelAnimationFrame(w1, w1.viz.resizeRaf)
              ELSE w1
    IN [requestAnimationFrame(w2, "resizeRender") EXCEPT !.viz.resizeRaf = NextRafId(w2)]

\* The arrow function resize() hands to requestAnimationFrame.
ResizeRender(w) ==
    IF w.viz.currentStep # 0 THEN transitionToStep(w, w.viz.currentStep) ELSE w

\* destroy() of the visualization handle.
vizDestroy(w) ==
    LET w1 == [w EXCEPT !.viz.listening = FALSE]
        w2 == cancelPendingWork(w1)
    IN [w2 EXCEPT !.viz.svgAttached = FALSE]

\* ------------------------------------------------------------------------
\* The scroll controller (scroll-controller.js 17-147)
\* ------------------------------------------------------------------------
\* onScrollOrResize without the ticking guard.
onScrollOrResize_NoGuard(w) ==
    requestAnimationFrame([w EXCEPT !.ctl.ticking = TRUE], "updateOnScroll")

onScrollOrResize(w) ==
    IF w.ctl.ticking THEN w
    ELSE requestAnimationFrame([w EXCEPT !.ctl.ticking = TRUE], "updateOnScroll")

\* updateStep adding is-active to the matching steps without removing it
\* from the others.
updateStep_OnlyAddsClass(w, stepNum) ==
    LET previousStep == w.ctl.currentStep
        w1 == [w EXCEPT
                 !.ctl.currentStep = stepNum,
                 !.ctl.isActive =
                     [i \in 1..Len(w.env.rects) |->
                         \/ w.ctl.isActive[i]
                         \/ ParseInt(w.env.rects[i].dataStep) = Num(stepNum)],
                 !.ctl.legendVisible = (stepNum >= 2 /\ stepNum <= 5)]
        w2 == IF w1.ctl.visualization THEN transitionToStep(w1, stepNum) ELSE w1
    IN IF w1.ctl.visualization /\ w1.ctl.transitionThrows
       THEN [w1 EXCEPT !.win.exception = TRUE]
       ELSE [w2 EXCEPT !.hist.lastEvent =
                [step |-> stepNum, previousStep |-> previousStep,
                 afterCall |-> w2.hist.calls, requested |-> w2.hist.requested,
                 any |-> TRUE, odd |-> ~w.hist.lastEvent.odd]]

\* updateStep showing the legend through step 6.
updateStep_LegendThroughSix(w, stepNum) ==
    LET previousStep == w.ctl.currentStep
        w1 == [w EXCEPT
                 !.ctl.currentStep = stepNum,
                 !.ctl.isActive =
                     [i \in 1..Len(w.env.rects) |->
                         ParseInt(w.env.rects[i].dataStep) = Num(stepNum)],
                 !.ctl.legendVisible = (stepNum >= 2 /\ stepNum <= 6)]
        w2 == IF w1.ctl.visualization THEN transitionToStep(w1, stepNum) ELSE w1
    IN IF w1.ctl.visualization /\ w1.ctl.transitionThrows
       THEN [w1 EXCEPT !.win.exception = TRUE]
       ELSE [w2 EXCEPT !.hist.lastEvent =
                [step |-> stepNum, previousStep |-> previousStep,
                 afterCall |-> w2.hist.calls, requested |-> w2.hist.requested,
                 any |-> TRUE, odd |-> ~w.hist.lastEvent.odd]]

\* updateStep dispatching the event before it calls the visualization.
updateStep_EventFirst(w, stepNum) ==
    LET previousStep == w.ctl.currentStep
        w1 == [w EXCEPT
                 !.ctl.currentStep = stepNum,
                 !.ctl.isActive =
                     [i \in 1..Len(w.env.rects) |->
                         ParseInt(w.env.rects[i].dataStep) = Num(stepNum)],
                 !.ctl.legendVisible = (stepNum >= 2 /\ stepNum <= 5)]
        w2 == IF w1.ctl.visualization THEN transitionToStep(w1, stepNum) ELSE w1
    IN IF w1.ctl.visualization /\ w1.ctl.transitionThrows
       THEN [w1 EXCEPT !.win.exception = TRUE]
       ELSE [w2 EXCEPT !.hist.lastEvent =
                [step |-> stepNum, previousStep |-> previousStep,
                 afterCall |-> w1.hist.calls, requested |-> w1.hist.requested,
                 any |-> TRUE, odd |-> ~w.hist.lastEvent.odd]]

\* updateStep(stepNum), which goToStep exposes.
updateStep(w, stepNum) ==
    LET previousStep == w.ctl.currentStep
        w1 == [w EXCEPT
                 !.ctl.currentStep = stepNum,
                 !.ctl.isActive =
                     [i \in 1..Len(w.env.rects) |->
                         ParseInt(w.env.rects[i].dataStep) = Num(stepNum)],
                 !.ctl.legendVisible = (stepNum >= 2 /\ stepNum <= 5)]
        w2 == IF w1.ctl.visualization THEN transitionToStep(w1, stepNum) ELSE w1
    IN IF w1.ctl.visualization /\ w1.ctl.transitionThrows
       THEN [w1 EXCEPT !.win.exception = TRUE]
       ELSE [w2 EXCEPT !.hist.lastEvent =
                [step |-> stepNum, previousStep |-> previousStep,
                 afterCall |-> w2.hist.calls, requested |-> w2.hist.requested,
                 any |-> TRUE, odd |-> ~w.hist.lastEvent.odd]]

\* updateOnScroll without the comparison with currentStep.
updateOnScroll_NoSameStepCheck(w) ==
    LET stepNum == pickActiveStep(w.env.rects, w.env.innerHeight)
        w1 == IF stepNum # 0 THEN updateStep(w, stepNum) ELSE w
    IN IF w1.win.exception THEN w1 ELSE [w1 EXCEPT !.ctl.ticking = FALSE]

updateOnScroll(w) ==
    LET stepNum == pickActiveStep(w.env.rects, w.env.innerHeight)
        w1 == IF stepNum # 0 /\ stepNum # w.ctl.currentStep
              THEN updateStep(w, stepNum) ELSE w
    IN IF w1.win.exception THEN w1 ELSE [w1 EXCEPT !.ctl.ticking = FALSE]

\* destroy() of the controller handle.
ctlDestroy(w) == [w EXCEPT !.ctl.listening = FALSE]

\* ------------------------------------------------------------------------
\* The scroll-position controller (scroll-controller.js 161-238)
\* ------------------------------------------------------------------------
\* calculatePositions(): the document offsets of every step.
calculatePositions(w) ==
    [w EXCEPT !.ctl.stepPositions =
        [i \in 1..Len(w.env.rects) |->
            [top |-> w.env.rects[i].top + w.env.pageYOffset,
             bottom |-> w.env.rects[i].bottom + w.env.pageYOffset,
             step |-> ParseInt(w.env.rects[i].dataStep)]]]

RECURSIVE ActiveStep(_, _)
\* The loop of the position controller's updateOnScroll: the step of the
\* first position that holds the viewport middle, 0 when there is none.
\* middle2 is twice scrollY + innerHeight / 2.
ActiveStep(positions, middle2) ==
    IF positions = <<>> THEN 0
    ELSE IF middle2 >= 2 * Head(positions).top /\ middle2 <= 2 * Head(positions).bottom
         THEN Val(Head(positions).step)
         ELSE ActiveStep(Tail(positions), middle2)

\* updateOnScroll of the position controller.
updateOnScrollPosition(w) ==
    LET activeStep == ActiveStep(w.ctl.stepPositions,
                                 2 * w.env.pageYOffset + w.env.innerHeight)
        w0 == [w EXCEPT !.ctl.currentStep = activeStep,
                        !.ctl.isActive =
                            [i \in 1..Len(w.env.rects) |->
                                ParseInt(w.env.rects[i].dataStep) = Num(activeStep)]]
        w1 == IF activeStep # w.ctl.currentStep /\ activeStep # 0
              THEN IF w0.ctl.visualization THEN transitionToStep(w0, activeStep) ELSE w0
              ELSE w
    IN [w1 EXCEPT !.ctl.ticking = FALSE]

\* onScroll of the position controller.
onScroll(w) ==
    IF ~w.ctl.ticking
    THEN [requestAnimationFrame(w, "updateOnScrollPosition") EXCEPT !.ctl.ticking = TRUE]
    ELSE w

\* ------------------------------------------------------------------------
\* The section-1 plots (section1/plots/plot.js, plot2.js, plot3.js, plot4.js)
\* and the theme switch of the header (common/shell.js)
\* ------------------------------------------------------------------------
\* The containers of the four plots.
PlotIds == {"plot-1", "plot-2", "plot-3", "plot-4"}

\* Most mutation records an observer holds before they are delivered.
MaxRecords == 1

\* A container before its plot is rendered, and after destroy().  content:
\* the svgs in the container; records: the MutationRecords (by attribute
\* name) queued for the themeObserver; resizePending: the resizeObserver has
\* an observation to deliver.
EmptyPlot ==
    [content |-> <<>>, resizeObserving |-> FALSE, themeObserving |-> FALSE,
     records |-> <<>>, resizePending |-> FALSE]

\* draw(): the container emptied, one svg of the container's size in the
\* colours of the theme.  The containers are as wide as the window lets the
\* visualization's be.
draw(w, p) ==
    LET width == w.env.containerRect.width
        height == IF w.env.containerRect.height = 0 THEN 400
                  ELSE w.env.containerRect.height
    IN [w EXCEPT !.plots[p].content =
            <<[width |-> width, height |-> height, colors |-> getComputedStyle(w)]>>]

RECURSIVE forEachMutation(_, _, _)
\* plot.js 152-159: a draw() for every record of the class attribute.
forEachMutation(w, p, mutations) ==
    IF mutations = <<>> THEN w
    ELSE forEachMutation(IF Head(mutations) = "class" THEN draw(w, p) ELSE w,
                         p, Tail(mutations))

\* The callback of the themeObserver of the plot in container p.
themeObserver(w, p, mutations) ==
    IF p = "plot-1" THEN forEachMutation(w, p, mutations)
    ELSE IF \E i \in 1..Len(mutations) : mutations[i] = "class" THEN draw(w, p)
    ELSE w

\* renderDummyPlot / renderPlot2 / renderPlot3 / renderPlot4 once the
\* container is found and D3 is loaded: both observers, then draw().
renderPlot(w, p) ==
    draw([w EXCEPT !.plots[p].resizeObserving = TRUE,
                   !.plots[p].resizePending = TRUE,
                   !.plots[p].themeObserving = TRUE], p)

\* destroy() without themeObserver.disconnect().
plotDestroy_KeepThemeObserver(w, p) ==
    [w EXCEPT !.plots[p] = [EmptyPlot EXCEPT !.themeObserving = w.plots[p].themeObserving,
                                             !.records = w.plots[p].records]]

\* destroy() of a plot handle.
plotDestroy(w, p) == [w EXCEPT !.plots[p] = EmptyPlot]

\* An attribute of document.body is set: a record for every MutationObserver
\* observing it.
QueueMutation(w, attributeName) ==
    [w EXCEPT !.plots =
        [p \in DOMAIN w.plots |->
            IF w.plots[p].themeObserving
            THEN [w.plots[p] EXCEPT !.records = Append(@, attributeName)]
            ELSE w.plots[p]]]

RECURSIVE NotifyMutationObservers(_, _)
\* The microtask that hands every observer of ps its records.
NotifyMutationObservers(w, ps) ==
    IF ps = {} THEN w
    ELSE LET p == CHOOSE q \in ps : TRUE
             w1 == [w EXCEPT !.plots[p].records = <<>>]
         IN NotifyMutationObservers(
                IF w.plots[p].records # <<>> THEN themeObserver(w1, p, w.plots[p].records)
                ELSE w1,
                ps \ {p})

RECURSIVE NotifyResizeObservers(_, _)
\* The rendering step that hands every resizeObserver of ps its observation.
NotifyResizeObservers(w, ps) ==
    IF ps = {} THEN w
    ELSE LET p == CHOOSE q \in ps : TRUE
             w1 == [w EXCEPT !.plots[p].resizePending = FALSE]
         IN NotifyResizeObservers(
                IF w.plots[p].resizePending THEN draw(w1, p) ELSE w1, ps \ {p})

\* The containers got another size: an observation for every resizeObserver.
ObserveResize(w, before) ==
    IF w.env.containerRect = before THEN w
    ELSE [w EXCEPT !.plots =
            [p \in DOMAIN w.plots |->
                [w.plots[p] EXCEPT !.resizePending = @ \/ w.plots[p].resizeObserving]]]

\* setupTheme() of the header, up to the listener it adds.
setupTheme(w, systemDark) ==
    LET savedTheme == w.shell.stored
        isDark == savedTheme = "dark" \/ (savedTheme = "" /\ systemDark)
        w1 == IF isDark
              THEN QueueMutation([w EXCEPT !.env.bodyClass = @ \cup {"dark-theme"}], "class")
              ELSE w
    IN [w1 EXCEPT !.shell.icon = IF isDark THEN "dark_mode" ELSE "light_mode"]

\* The click listener of #theme-toggle.
themeToggleClick(w) ==
    LET isNowDark == "dark-theme" \notin w.env.bodyClass
        w1 == QueueMutation(
                  [w EXCEPT !.env.bodyClass =
                       IF isNowDark THEN @ \cup {"dark-theme"} ELSE @ \ {"dark-theme"}],
                  "class")
    IN [w1 EXCEPT !.shell.icon = IF isNowDark THEN "dark_mode" ELSE "light_mode",
                  !.shell.stored = IF isNowDark THEN "dark" ELSE "light"]

RECURSIVE renderPlots(_, _)
\* The plots of ps rendered one after the other.
renderPlots(w, ps) ==
    IF ps = {} THEN w
    ELSE LET p == CHOOSE q \in ps : TRUE
         IN renderPlots(renderPlot(w, p), ps \ {p})

\* ------------------------------------------------------------------------
\* Events of the page
\* ------------------------------------------------------------------------
\* An animation-frame callback, by the name it was requested under.
RafCallback(w, cb) ==
    CASE cb = "updateOnScroll" -> updateOnScroll(w)
      [] cb = "updateOnScrollPosition" -> updateOnScrollPosition(w)
      [] OTHER -> ResizeRender(w)

\* An exception that leaves a callback or reaches the caller in the page is
\* reported and ends there.
reportException(w) == [w EXCEPT !.win.exception = FALSE]

RECURSIVE RunCallbacks(_, _)
\* One animation frame: the callbacks of the list, in the order requested.
RunCallbacks(w, q) ==
    IF q = <<>> THEN w
    ELSE RunCallbacks(reportException(RafCallback(w, Head(q).cb)), Tail(q))

\* The window's resize event: the visualization's listener was added first.
DispatchResize(w) ==
    LET w1 == IF w.viz.listening THEN resize(w) ELSE w
    IN IF ~w1.ctl.listening THEN w1
       ELSE IF w1.ctl.kind = "position" THEN calculatePositions(w1)
       ELSE onScrollOrResize(w1)

\* The window's scroll event.
DispatchScroll(w) ==
    IF ~w.ctl.listening THEN w
    ELSE IF w.ctl.kind = "position" THEN onScroll(w)
    ELSE onScrollOrResize(w)

\* What the history remembers of the operation just made.
Did(w, op, ran, token, call) ==
    [w EXCEPT !.hist.last = [op |-> op, ran |-> ran, token |-> token, call |-> call]]

\* ------------------------------------------------------------------------
\* Construction
\* ------------------------------------------------------------------------
\* The sizes the window takes: its innerHeight and, following it, the rect
\* of the visualization's container.
WindowSizes ==
    {[innerHeight |-> 2, containerRect |-> [width |-> 400, height |-> 300]],
     [innerHeight |-> 3, containerRect |-> [width |-> 800, height |-> 500]]}

\* The page of section 2: the steps are StepHeight tall and StepGap apart,
\* and the page scrolls to the offsets k * ScrollUnit, k in 0..MaxScroll.
StepHeight == 2
StepGap == 1
ScrollUnit == 2
MaxScroll == 3

\* The steps the page hands to goToStep.
GoToArgs == {0, 6}

\* The data-step attributes of the steps of the page, in document order.
PageDataSteps ==
    {<< <<"0">>, <<"2">>, <<"6">> >>,
     << <<"2">>, Undefined >>}

\* The same for a page built on the position controller: every step of it
\* carries a number.
PositionDataSteps ==
    {<< <<"0">>, <<"2">>, <<"6">> >>}

\* getBoundingClientRect() of every step with the page scrolled to y.
PageRects(dataSteps, y) ==
    [i \in 1..Len(dataSteps) |->
        [dataStep |-> dataSteps[i],
         top |-> (i - 1) * (StepHeight + StepGap) - y,
         bottom |-> (i - 1) * (StepHeight + StepGap) - y + StepHeight]]

NoLayers == [axisGroup |-> {}, dataGroup |-> {}, annotationGroup |-> {}]

\* Before any module of the page has run.
BlankWorld(env) ==
    [env |-> env,
     plots |-> <<>>,
     shell |-> [icon |-> "light_mode", stored |-> ""],
     load |-> [containers |-> {}, phase |-> <<>>, imports |-> 0],
     ctl |-> [kind |-> "none", visualization |-> FALSE,
              transitionThrows |-> FALSE, currentStep |-> 0,
              ticking |-> FALSE, listening |-> FALSE, stepPositions |-> <<>>,
              isActive |-> [i \in 1..Len(env.rects) |-> FALSE],
              legendVisible |-> FALSE],
     viz |-> [currentStep |-> 0, transitionToken |-> 0, pendingTimeouts |-> {},
              resizeRaf |-> 0, width |-> 0, height |-> 0,
              innerWidth |-> 0, innerHeight |-> 0,
              layers |-> NoLayers, listening |-> FALSE, svgAttached |-> FALSE],
     win |-> [rafQueue |-> <<>>, timers |-> {}, console |-> <<>>,
              exception |-> FALSE],
     hist |-> [calls |-> 0, requested |-> 0,
               drawing |-> [step |-> 0, call |-> 0], fnRan |-> FALSE,
               wentTo |-> FALSE, destroyed |-> {},
               last |-> [op |-> "init", ran |-> FALSE, token |-> 0, call |-> 0],
               lastEvent |-> [step |-> 0, previousStep |-> 0, afterCall |-> 0,
                              requested |-> 0, any |-> FALSE, odd |-> FALSE]]]

\* initVisualization once the container is found and D3 is loaded: the svg
\* and its layers, resize(), the resize listener, the initial scatter.
initVisualization(w) ==
    LET w1 == [w EXCEPT !.viz.svgAttached = TRUE]
        w2 == resize(w1)
        w3 == [w2 EXCEPT !.viz.listening = TRUE, !.viz.currentStep = 0,
                         !.viz.transitionToken = 0, !.viz.pendingTimeouts = {}]
    IN renderScatter(w3, TRUE)

\* initScrollController: the listeners, then onScrollOrResize().  The
\* controller is handed what initVisualization returned: the handle, or null
\* when it set nothing up.
initScrollController(w) ==
    onScrollOrResize([w EXCEPT !.ctl.kind = "scroll",
                               !.ctl.visualization = w.viz.svgAttached,
                               !.ctl.currentStep = 0,
                               !.ctl.ticking = FALSE, !.ctl.listening = TRUE])

\* initScrollPositionController: the positions, then the listeners.
initScrollPositionController(w) ==
    LET w1 == [w EXCEPT !.ctl.kind = "position",
                        !.ctl.visualization = w.viz.svgAttached,
                        !.ctl.currentStep = 0, !.ctl.ticking = FALSE]
    IN [calculatePositions(w1) EXCEPT !.ctl.listening = TRUE]

\* ------------------------------------------------------------------------
\* Actions
\* ------------------------------------------------------------------------
\* The page calls transitionToStep(n) on the handle it holds.
ApiTransitionToStep ==
    /\ viz.svgAttached
    /\ hist.calls < MaxCalls
    /\ \E n \in 0..MaxStepArg :
          Commit(Did(transitionToStep(World, n), "transitionToStep", FALSE, 0, 0))
    /\ UNCHANGED picked

\* The page calls resize() on the handle it holds.
ApiResize ==
    /\ viz.svgAttached
    /\ Commit(Did(resize(World), "resize", FALSE, 0, 0))
    /\ UNCHANGED picked

\* The window is resized: the container follows, the resize event is dispatched.
WindowResize ==
    /\ \E size \in WindowSizes :
          Commit(Did(DispatchResize(ObserveResize(
                         [World EXCEPT !.env.innerHeight = size.innerHeight,
                                       !.env.containerRect = size.containerRect],
                         containerRect)),
                     "windowResize", FALSE, 0, 0))
    /\ UNCHANGED picked

\* The page is scrolled to y: the rects move, the scroll event is dispatched.
Scroll ==
    /\ \E k \in 0..MaxScroll :
          Commit(Did(DispatchScroll([World EXCEPT
                        !.env.pageYOffset = k * ScrollUnit,
                        !.env.rects =
                            PageRects([i \in 1..Len(rects) |-> rects[i].dataStep],
                                      k * ScrollUnit)]),
                     "scroll", FALSE, 0, 0))
    /\ UNCHANGED picked

\* The page calls goToStep(n) on the controller handle.
GoToStep ==
    /\ ctl.kind = "scroll"
    /\ hist.calls < MaxCalls
    /\ \E n \in GoToArgs :
          Commit(Did([reportException(updateStep(World, n)) EXCEPT !.hist.wentTo = TRUE],
                     "goToStep", FALSE, 0, 0))
    /\ UNCHANGED picked

\* The page calls destroy() on the controller handle.
CtlDestroy ==
    /\ ctl.listening
    /\ Commit(Did(ctlDestroy(World), "ctlDestroy", FALSE, 0, 0))
    /\ UNCHANGED picked

\* An animation frame: every callback requested before it runs.  A frame is
\* served while the transitionToStep calls its callbacks make stay within
\* MaxCalls.
Frame ==
    /\ win.rafQueue # <<>>
    /\ LET w == RunCallbacks([World EXCEPT !.win.rafQueue = <<>>], win.rafQueue)
       IN /\ w.hist.calls <= MaxCalls
          /\ Commit(Did(w, "frame", FALSE, 0, 0))
    /\ UNCHANGED picked

\* A timer of the window fires.
TimerFire ==
    /\ \E t \in win.timers :
          LET w == TimerCallback([World EXCEPT !.win.timers = @ \ {t}], t)
          IN Commit(Did(w, "timer", w.hist.fnRan, t.tokenAtSchedule, t.call))
    /\ UNCHANGED picked

\* The transitions of one renderer started together: of those still
\* running, the one with the earliest end ends first.
TransitionEnd ==
    /\ \E le \in {<<l, e>> \in UNION {{<<l, e>> : e \in viz.layers[l]} : l \in DOMAIN viz.layers} :
                     e.anim > 0} :
          /\ \A l2 \in DOMAIN viz.layers : \A f \in viz.layers[l2] :
                 (f.anim > 0 /\ f.call = le[2].call) => f.anim >= le[2].anim
          /\ Commit(Did([World EXCEPT !.viz.layers[le[1]] =
                             (@ \ {le[2]}) \cup {[le[2] EXCEPT !.anim = 0]}],
                        "transitionEnd", TRUE, 0, le[2].call))
    /\ UNCHANGED picked

\* The page calls destroy() on the visualization handle.
VizDestroy ==
    /\ viz.svgAttached
    /\ Commit(Did(vizDestroy(World), "vizDestroy", FALSE, 0, 0))
    /\ UNCHANGED picked

\* ------------------------------------------------------------------------
\* The visualization on its own, driven through its handle
\* ------------------------------------------------------------------------
\* The variables hold the world w.
StartsAs(w) ==
    /\ rects = w.env.rects
    /\ innerHeight = w.env.innerHeight
    /\ pageYOffset = w.env.pageYOffset
    /\ containerRect = w.env.containerRect
    /\ bodyClass = w.env.bodyClass
    /\ plots = w.plots
    /\ shell = w.shell
    /\ load = w.load
    /\ force = <<>>
    /\ ctl = w.ctl
    /\ viz = w.viz
    /\ win = w.win
    /\ hist = w.hist

InitViz ==
    /\ picked = NaN
    /\ \E size \in WindowSizes :
          StartsAs(initVisualization(BlankWorld(
              [rects |-> <<>>, innerHeight |-> size.innerHeight, pageYOffset |-> 0,
               containerRect |-> size.containerRect, bodyClass |-> {}])))

NextViz ==
    \/ ApiTransitionToStep
    \/ ApiResize
    \/ WindowResize
    \/ Frame
    \/ TimerFire
    \/ TransitionEnd
    \/ VizDestroy

SpecViz == InitViz /\ [][NextViz]_vars

\* ------------------------------------------------------------------------
\* The page of section 2: the visualization, then the controller built on it
\* ------------------------------------------------------------------------
\* The environment the modules of the page find when they are loaded.
PageEnv(size, dataSteps) ==
    [rects |-> PageRects(dataSteps, 0), innerHeight |-> size.innerHeight,
     pageYOffset |-> 0, containerRect |-> size.containerRect, bodyClass |-> {}]

Init ==
    /\ picked = NaN
    /\ \E size \in WindowSizes :
          \/ \E dataSteps \in PageDataSteps, visualization \in BOOLEAN :
                LET w == BlankWorld(PageEnv(size, dataSteps))
                IN StartsAs(initScrollController(
                       IF visualization THEN initVisualization(w) ELSE w))
          \/ \E dataSteps \in PageDataSteps :
                StartsAs([initScrollController(BlankWorld(PageEnv(size, dataSteps)))
                             EXCEPT !.ctl.visualization = TRUE,
                                    !.ctl.transitionThrows = TRUE])
          \/ \E dataSteps \in PositionDataSteps :
                StartsAs(initScrollPositionController(initVisualization(
                    BlankWorld(PageEnv(size, dataSteps)))))

Next ==
    \/ Scroll
    \/ WindowResize
    \/ Frame
    \/ TimerFire
    \/ TransitionEnd
    \/ GoToStep
    \/ CtlDestroy

Spec == Init /\ [][Next]_vars

\* ------------------------------------------------------------------------
\* A document with the header, the four plots and the visualization
\* ------------------------------------------------------------------------
\* The user clicks the theme switch.
ThemeToggle ==
    /\ \A p \in DOMAIN plots : Len(plots[p].records) < MaxRecords
    /\ Commit(Did(themeToggleClick(World), "themeToggle", FALSE, 0, 0))
    /\ UNCHANGED picked

\* Some script sets the style attribute of document.body.
BodyAttribute ==
    /\ \A p \in DOMAIN plots : Len(plots[p].records) < MaxRecords
    /\ Commit(Did(QueueMutation(World, "style"), "bodyAttribute", FALSE, 0, 0))
    /\ UNCHANGED picked

\* The mutation observers are notified.
MutationsDelivered ==
    /\ \E p \in DOMAIN plots : plots[p].records # <<>>
    /\ Commit(Did(NotifyMutationObservers(World, DOMAIN plots),
                  "mutationsDelivered", FALSE, 0, 0))
    /\ UNCHANGED picked

\* The resize observers are notified.
ResizesDelivered ==
    /\ \E p \in DOMAIN plots : plots[p].resizePending
    /\ Commit(Did(NotifyResizeObservers(World, DOMAIN plots),
                  "resizesDelivered", FALSE, 0, 0))
    /\ UNCHANGED picked

InitTheme ==
    /\ picked = NaN
    /\ \E size \in WindowSizes, stored \in {"", "dark", "light"}, systemDark \in BOOLEAN :
          LET w == [BlankWorld([rects |-> <<>>, innerHeight |-> size.innerHeight,
                               pageYOffset |-> 0, containerRect |-> size.containerRect,
                               bodyClass |-> {}])
                       EXCEPT !.shell.stored = stored,
                              !.plots = [p \in PlotIds |-> EmptyPlot]]
          IN StartsAs(initVisualization(renderPlots(setupTheme(w, systemDark), PlotIds)))

NextTheme ==
    \/ ThemeToggle
    \/ BodyAttribute
    \/ MutationsDelivered
    \/ ResizesDelivered
    \/ WindowResize
    \/ ApiTransitionToStep
    \/ Frame
    \/ TimerFire
    \/ TransitionEnd

SpecTheme == InitTheme /\ [][NextTheme]_vars

\* ------------------------------------------------------------------------
\* The initializers from their first line: the container looked up, D3
\* imported (plot.js 19-39, plot2.js 6-17, plot3.js 6-14, plot4.js 6-14,
\* highlight-europe.js 102-119)
\* ------------------------------------------------------------------------
\* The container the page hands to initVisualization.
VizId == "scrolly-viz"

Modules == PlotIds \cup {VizId}

\* console.error(...): the console keeps the module that called it.
consoleError(w, m) == [w EXCEPT !.win.console = Append(@, m)]

\* initializerStart without the early return for a missing container.
initializerStart_NoLookup(w, m) ==
    [w EXCEPT !.load.phase[m] = "importing", !.load.imports = @ + 1]

\* The initializer of module m up to its await: without the container it
\* returns, with it import() is called.
initializerStart(w, m) ==
    IF m \notin w.load.containers
    THEN [(IF m = VizId THEN consoleError(w, m) ELSE w) EXCEPT !.load.phase[m] = "returned"]
    ELSE [w EXCEPT !.load.phase[m] = "importing", !.load.imports = @ + 1]

\* The initializer of module m from its await on: the rest of the function
\* when D3 is loaded, the catch block when it is not.
initializerResume(w, m, loaded) ==
    IF loaded
    THEN [(IF m = VizId THEN initVisualization(w) ELSE renderPlot(w, m))
             EXCEPT !.load.phase[m] = "ready"]
    ELSE [(IF m \in {"plot-1", "plot-2", VizId} THEN consoleError(w, m) ELSE w)
             EXCEPT !.load.phase[m] = "failed"]

RECURSIVE StartAll(_, _)
\* The page script calls the initializers of ms one after the other.
StartAll(w, ms) ==
    IF ms = {} THEN w
    ELSE LET m == CHOOSE x \in ms : TRUE
         IN StartAll(initializerStart(w, m), ms \ {m})

RECURSIVE ResumeAll(_, _, _)
\* The one module request every import() waits for is settled: the
\* initializers waiting for it go on one after the other.
ResumeAll(w, ms, loaded) ==
    IF ms = {} THEN w
    ELSE LET m == CHOOSE x \in ms : TRUE
         IN ResumeAll(IF w.load.phase[m] = "importing"
                      THEN initializerResume(w, m, loaded) ELSE w,
                      ms \ {m}, loaded)

\* The request for D3 succeeds or fails.
ImportSettles ==
    /\ \E m \in DOMAIN load.phase : load.phase[m] = "importing"
    /\ \E loaded \in BOOLEAN :
          Commit(Did(ResumeAll(World, DOMAIN load.phase, loaded),
                     IF loaded THEN "importLoaded" ELSE "importFailed", FALSE, 0, 0))
    /\ UNCHANGED picked

\* The page calls destroy() on the handle renderPlot returned for p.
PlotDestroy ==
    /\ \E p \in DOMAIN plots :
          /\ p \in DOMAIN load.phase
          /\ load.phase[p] = "ready"
          /\ Commit(Did([plotDestroy(World, p) EXCEPT !.hist.destroyed = @ \cup {p}],
                        "plotDestroy", FALSE, 0, 0))
    /\ UNCHANGED picked

\* A page with any of the five containers: the header is set up, the page
\* script has called every initializer.
InitLoad ==
    /\ picked = NaN
    /\ \E size \in WindowSizes, containers \in SUBSET Modules, systemDark \in BOOLEAN :
          LET w == [BlankWorld([rects |-> <<>>, innerHeight |-> size.innerHeight,
                               pageYOffset |-> 0, containerRect |-> size.containerRect,
                               bodyClass |-> {}])
                       EXCEPT !.plots = [p \in PlotIds |-> EmptyPlot],
                              !.load = [containers |-> containers,
                                        phase |-> [m \in Modules |-> "idle"],
                                        imports |-> 0]]
          IN StartsAs(StartAll(setupTheme(w, systemDark), Modules))

NextLoad ==
    \/ ImportSettles
    \/ ThemeToggle
    \/ BodyAttribute
    \/ MutationsDelivered
    \/ ResizesDelivered
    \/ WindowResize
    \/ Frame
    \/ PlotDestroy

SpecLoad == InitLoad /\ [][NextLoad]_vars

\* ------------------------------------------------------------------------
\* The force-layout page (prova_force/script.js)
\* ------------------------------------------------------------------------
\* Rows of data.csv that d3.csv hands to the page.
MaxRows == 2

\* Number(s) of a CSV cell (the unary plus): the empty cell is 0, a cell of
\* digits is its value, anything else, the missing column included, is NaN.
ToNumber(s) ==
    IF s = <<>> THEN Num(0)
    ELSE IF \A i \in 1..Len(s) : IsDigit(s[i]) THEN DigitPrefix(s, 0, FALSE)
    ELSE NaN

\* x || d for a number x: 0 and NaN are falsy.
OrElse(x, d) == IF x = NaN \/ x = Num(0) THEN d ELSE Val(x)

\* String.prototype.toLowerCase, over the capitals the rows use.
toLowerCase(s) ==
    LET UpperToLower ==
            [c \in {"A", "K", "S", "U"} |->
                CASE c = "A" -> "a" [] c = "K" -> "k" [] c = "S" -> "s" [] OTHER -> "u"]
    IN [i \in 1..Len(s) |->
           IF s[i] \in DOMAIN UpperToLower THEN UpperToLower[s[i]] ELSE s[i]]

\* String.prototype.includes
includes(s, sub) ==
    \E i \in 0..(Len(s) - Len(sub)) : SubSeq(s, i + 1, i + Len(sub)) = sub

\* The rows a CSV file can hold: a complete one, one with an empty and a
\* non-numeric cell, and one of a file that lacks the columns.
RowKinds ==
    {[Conference |-> "SciVis", Year |-> <<"1", "9", "9", "5">>,
      AminerCitationCount |-> <<"4", "0", "0">>, AuthorAffiliation |-> <<"U", "S", "A">>],
     [Conference |-> "InfoVis", Year |-> <<>>,
      AminerCitationCount |-> <<"x">>, AuthorAffiliation |-> <<"U", "K">>],
     [Conference |-> "undefined", Year |-> Undefined,
      AminerCitationCount |-> Undefined, AuthorAffiliation |-> Undefined]}

\* Math.min(10, Math.sqrt(citations) * 0.4 + 2.5), in tenths of a pixel,
\* rounded down.
Radius(citations) ==
    IF 16 * citations >= 75 * 75 THEN 100
    ELSE 25 + (CHOOSE k \in 0..75 : k * k <= 16 * citations /\ 16 * citations < (k + 1) * (k + 1))

\* One element of nodes (script.js 24-51).  The random month and the
\* coordinates of a node are not kept.
Node(d, i) ==
    LET citations == OrElse(ToNumber(d.AminerCitationCount), 0)
        year == OrElse(ToNumber(d.Year), 2000)
        conf == IF d.Conference = "SciVis" THEN "Vis" ELSE d.Conference
        aff == toLowerCase(IF d.AuthorAffiliation = Undefined THEN <<>> ELSE d.AuthorAffiliation)
        isNA == \/ includes(aff, <<"u", "s", "a">>)
                \/ includes(aff, <<"c", "a", "n", "a", "d", "a">>)
                \/ includes(aff, <<"n", "o", "r", "t", "h", " ", "a", "m", "e", "r", "i", "c", "a">>)
        region == IF isNA THEN "North America"
                  ELSE IF \/ includes(aff, <<"e", "u", "r", "o", "p", "e">>)
                          \/ includes(aff, <<"g", "e", "r", "m", "a", "n", "y">>)
                          \/ includes(aff, <<"u", "k">>)
                       THEN "Europe" ELSE "Asia/Other"
    IN [id |-> i - 1, year |-> year, citations |-> citations, group |-> conf,
        region |-> region, isNA |-> isNA, r |-> Radius(citations)]

colors(group) ==
    CASE group \in {"Vis", "SciVis"} -> "#5E60CE"
      [] group = "InfoVis" -> "#4EA8DE"
      [] group = "VAST" -> "#F48C06"
      [] OTHER -> "#999"

\* What each entry of forces sets: the charge force (on FALSE for null), the
\* alpha in tenths, whether it installs the cluster force, and its labels.
ForceModes ==
    {"grid", "timeline", "barchart", "butterfly", "scatter", "histogram",
     "radial", "map", "network", "calendar"}

Charge(mode) ==
    CASE mode \in {"grid", "scatter", "calendar"} -> [on |-> FALSE, strength |-> 0]
      [] mode \in {"timeline", "map"} -> [on |-> TRUE, strength |-> -3]
      [] mode \in {"barchart", "histogram"} -> [on |-> TRUE, strength |-> -1]
      [] mode = "butterfly" -> [on |-> TRUE, strength |-> -2]
      [] OTHER -> [on |-> TRUE, strength |-> -5]

Alpha(mode) == IF mode \in {"grid", "scatter", "calendar"} THEN 8 ELSE 5

LabelsOf(mode) ==
    CASE mode = "grid" -> {}
      [] mode = "timeline" -> {"1990", "2024"}
      [] mode = "barchart" -> {"Vis/SciVis", "InfoVis", "VAST"}
      [] mode = "butterfly" -> {"North America", "Rest of World"}
      [] mode = "scatter" -> {"High Impact", "Year"}
      [] mode = "histogram" -> {"< 10 Cites", "10-50 Cites", "50+ Cites"}
      [] mode = "radial" -> {"Vis", "InfoVis", "VAST"}
      [] mode = "map" -> {"North America", "Europe", "Asia & Oceania"}
      [] mode = "network" -> {"Vis Cluster", "InfoVis Cluster", "VAST Cluster"}
      [] OTHER -> {"Jan", "Dec", "1990", "2024"}

\* updateLabels: a keyed join on the text.  A label that is not in the data
\* starts to fade out and is removed when the fade ends; a label of the data
\* is created or, when it is still there, moved, which interrupts its fade.
updateLabels(f, mode) ==
    [f EXCEPT !.labels =
        {[text |-> t, at |-> mode, leaving |-> FALSE] : t \in LabelsOf(mode)}
        \cup {[l EXCEPT !.leaving = TRUE] : l \in {k \in @ : k.text \notin LabelsOf(mode)}}]

\* forces[mode]()
forces(f, mode) ==
    updateLabels(
        [f EXCEPT !.simulation.x = mode, !.simulation.y = mode,
                  !.simulation.cluster = (@ \/ mode = "network"),
                  !.simulation.charge = Charge(mode),
                  !.simulation.alpha = Alpha(mode),
                  !.simulation.running = TRUE],
        mode)

\* The .step articles of the page, by their data-mode; the last has none.
ForceSteps == <<"grid", "timeline", "network", "null">>

\* initScroller: scrollama is a global of its own script; calling it when
\* that script did not load throws.
initScroller(f) ==
    IF f.scrollamaLoaded THEN [f EXCEPT !.scroller = TRUE] ELSE [f EXCEPT !.thrown = TRUE]

\* initVis
initVis(f) ==
    initScroller(
        [f EXCEPT !.circles = [i \in 1..Len(f.nodes) |->
                                  [r |-> f.nodes[i].r, fill |-> colors(f.nodes[i].group),
                                   stroke |-> "#fff", strokeWidth |-> 5]],
                  !.simulation = [created |-> TRUE, x |-> "none", y |-> "none",
                                  cluster |-> FALSE,
                                  charge |-> [on |-> FALSE, strength |-> 0],
                                  alpha |-> 10, running |-> TRUE]])

\* The callback of .then
csvThen(f) ==
    initVis([f EXCEPT !.csv = "loaded",
                      !.nodes = [i \in 1..Len(f.rawData) |-> Node(f.rawData[i], i)]])

\* The callback of .catch: it is chained after .then, so it also runs when
\* the callback of .then throws.
csvCatch(f) == [f EXCEPT !.thrown = FALSE, !.errors = @ + 1, !.alerts = @ + 1]

ForceUnchanged ==
    UNCHANGED <<rects, innerHeight, pageYOffset, picked, containerRect, bodyClass,
                plots, shell, load, ctl, viz, win, hist>>

\* d3.csv(DATA_URL) settles.
CsvSettles ==
    /\ force.csv = "pending"
    /\ \E loaded \in BOOLEAN :
          LET f == IF loaded THEN csvThen(force) ELSE [force EXCEPT !.csv = "failed", !.thrown = TRUE]
          IN force' = IF f.thrown THEN csvCatch(f) ELSE f
    /\ ForceUnchanged

\* onStepEnter of scrollama for the step element el.
StepEnter ==
    /\ force.scroller
    /\ \E el \in 1..Len(ForceSteps) :
          LET mode == ForceSteps[el]
              f == [force EXCEPT !.isActive = [i \in 1..Len(ForceSteps) |-> i = el]]
          IN force' = IF mode \in ForceModes THEN forces(f, mode) ELSE f
    /\ ForceUnchanged

\* The fade of a label that left ends: the label is removed.
LabelExitEnds ==
    /\ \E l \in force.labels :
          /\ l.leaving
          /\ force' = [force EXCEPT !.labels = @ \ {l}]
    /\ ForceUnchanged

\* The simulation cools below alphaMin and its timer stops.
SimulationEnds ==
    /\ force.simulation.created
    /\ force.simulation.running
    /\ force' = [force EXCEPT !.simulation.running = FALSE, !.simulation.alpha = 0]
    /\ ForceUnchanged

MouseOver ==
    /\ force.hovered = 0
    /\ \E i \in 1..Len(force.circles) :
          force' = [force EXCEPT !.hovered = i,
                                 !.circles[i].stroke = "#000",
                                 !.circles[i].strokeWidth = 20,
                                 !.tooltip.opacity = 1,
                                 !.tooltip.html = i]
    /\ ForceUnchanged

MouseMove ==
    /\ force.hovered # 0
    /\ \E at \in {<<0, 0>>, <<5, 7>>} :
          force' = [force EXCEPT !.tooltip.left = at[1] + 10, !.tooltip.top = at[2] + 10]
    /\ ForceUnchanged

MouseOut ==
    /\ force.hovered # 0
    /\ force' = [force EXCEPT !.hovered = 0,
                              !.circles[force.hovered].stroke = "#fff",
                              !.circles[force.hovered].strokeWidth = 5,
                              !.tooltip.opacity = 0]
    /\ ForceUnchanged

InitForce ==
    /\ rects = <<>>
    /\ innerHeight = 0
    /\ pageYOffset = 0
    /\ picked = NaN
    /\ containerRect = [width |-> 0, height |-> 0]
    /\ bodyClass = {}
    /\ plots = <<>>
    /\ shell = [icon |-> "light_mode", stored |-> ""]
    /\ load = [containers |-> {}, phase |-> <<>>, imports |-> 0]
    /\ ctl = <<>>
    /\ viz = <<>>
    /\ win = [rafQueue |-> <<>>, timers |-> {}, console |-> <<>>, exception |-> FALSE]
    /\ hist = [calls |-> 0]
    /\ \E rawData \in UNION {[1..n -> RowKinds] : n \in 0..MaxRows},
          scrollamaLoaded \in BOOLEAN :
          force = [rawData |-> rawData, scrollamaLoaded |-> scrollamaLoaded,
                   csv |-> "pending", nodes |-> <<>>, circles |-> <<>>,
                   simulation |-> [created |-> FALSE, x |-> "none", y |-> "none",
                                   cluster |-> FALSE,
                                   charge |-> [on |-> FALSE, strength |-> 0],
                                   alpha |-> 0, running |-> FALSE],
                   scroller |-> FALSE,
                   isActive |-> [i \in 1..Len(ForceSteps) |-> FALSE],
                   labels |-> {}, hovered |-> 0,
                   tooltip |-> [opacity |-> 0, html |-> 0, left |-> 0, top |-> 0],
                   thrown |-> FALSE, errors |-> 0, alerts |-> 0]

NextForce ==
    \/ CsvSettles
    \/ StepEnter
    \/ LabelExitEnds
    \/ SimulationEnds
    \/ MouseOver
    \/ MouseMove
    \/ MouseOut

SpecForce == InitForce /\ [][NextForce]_vars

\* ------------------------------------------------------------------------
\* Claims about the resolver
\* ------------------------------------------------------------------------
\* The steps pickActiveStep can return: those with a numeric data-step.
NumericSteps == {i \in 1..Len(rects) : IsFinite(ParseInt(rects[i].dataStep))}

StepNumOf(i) == Val(ParseInt(rects[i].dataStep))

\* Twice the distance from the viewport middle to the nearer edge of a region
\* that does not contain it.
BoundaryDistance2(r) ==
    IF 2 * r.bottom < innerHeight THEN innerHeight - 2 * r.bottom
    ELSE 2 * r.top - innerHeight

\* C1: whenever some step region contains the viewport midpoint, the step
\* pickActiveStep returns is one whose region contains the midpoint.
C1_ContainingOutranksNearest ==
    (picked # NaN /\ \E i \in NumericSteps : containsMiddle(rects[i], innerHeight))
        => \E j \in NumericSteps :
              /\ StepNumOf(j) = Val(picked)
              /\ containsMiddle(rects[j], innerHeight)

\* C2: when no step region contains the viewport midpoint, the step returned
\* has the least boundary distance among the steps with a numeric data-step.
C2_NearestByBoundaryDistance ==
    (/\ picked # NaN
     /\ NumericSteps # {}
     /\ \A i \in NumericSteps : ~containsMiddle(rects[i], innerHeight))
        => \E j \in NumericSteps :
              /\ StepNumOf(j) = Val(picked)
              /\ \A i \in NumericSteps :
                    BoundaryDistance2(rects[j]) <= BoundaryDistance2(rects[i])

\* Two numeric steps, neither containing the middle; the later one in
\* document order is the nearer one, and it is the one returned.
C2_Witness ==
    /\ picked # NaN
    /\ \A i \in NumericSteps : ~containsMiddle(rects[i], innerHeight)
    /\ \E i, j \in NumericSteps :
          /\ j < i
          /\ rects[i].top < rects[i].bottom
          /\ BoundaryDistance2(rects[i]) < BoundaryDistance2(rects[j])
          /\ Val(picked) = StepNumOf(i)

\* ------------------------------------------------------------------------
\* Claims about the visualization
\* ------------------------------------------------------------------------
AllElements == viz.layers.axisGroup \cup viz.layers.dataGroup \cup viz.layers.annotationGroup

\* The renderers whose elements make up the view of a step.
RenderersOf(step) ==
    CASE step = 2 -> {"renderScatter", "highlightEurope"}
      [] step = 3 -> {"renderHistogram"}
      [] step = 4 -> {"renderComparison"}
      [] step = 5 -> {"renderTrendLine"}
      [] step = 6 -> {"renderTrendLine", "renderSummary"}
      [] OTHER -> {"renderScatter"}

\* C3: a later transition wins over an earlier one.  A deferred effect (a
\* timer's fn, the end of a D3 transition) only ever runs for the latest
\* transitionToStep call, and once no timer is left the layers of a live
\* visualization hold the view of the step requested last, drawn by that
\* last call, and nothing else.
C3_LaterTransitionWins ==
    /\ (hist.last.op \in {"timer", "transitionEnd"} /\ hist.last.ran)
           => hist.last.call = hist.calls
    /\ (viz.svgAttached /\ hist.calls > 0 /\ win.timers = {})
           => /\ {e.by : e \in AllElements} = RenderersOf(hist.requested)
              /\ \A e \in AllElements :
                    e.step = hist.requested /\ e.call = hist.calls

\* Two calls were made, the second for step 6, and its timer has drawn the
\* summary.
C3_Witness ==
    /\ hist.calls >= 2
    /\ hist.requested = 6
    /\ hist.last.op = "timer" /\ hist.last.ran
    /\ \E e \in viz.layers.annotationGroup : e.kind = "headline"

\* C4: transitionToken grows by exactly one with every transitionToStep
\* call, the re-render of a resize frame included, and no other operation
\* (resize, a timer firing, the end of a transition, destroy) changes it.
C4_TokenCountsCalls ==
    [][/\ viz'.transitionToken - viz.transitionToken = hist'.calls - hist.calls
       /\ hist'.calls - hist.calls \in {0, 1}
       /\ hist'.last.op \in {"resize", "windowResize", "timer", "transitionEnd", "vizDestroy"}
             => viz'.transitionToken = viz.transitionToken]_vars

\* A resize frame has re-rendered the current step and bumped the token a
\* second time.
C4_Witness ==
    /\ hist.last.op = "frame"
    /\ viz.currentStep # 0
    /\ hist.calls >= 2
    /\ viz.transitionToken = hist.calls

\* C5: the fn of a timer runs only if the token captured by schedule() is
\* transitionToken when the timer fires, and never once another
\* transitionToStep call was made after the one that scheduled it.
C5_TimerRunsOnlyForCurrentToken ==
    (hist.last.op = "timer" /\ hist.last.ran)
        => /\ hist.last.token = viz.transitionToken
           /\ hist.last.call = hist.calls

\* A timer scheduled by the second call has fired and run renderSummary.
C5_Witness ==
    /\ hist.last.op = "timer" /\ hist.last.ran
    /\ hist.last.token >= 2
    /\ \E e \in viz.layers.annotationGroup : e.by = "renderSummary"

\* C6: after destroy() the resize listener is detached, and no timer,
\* animation-frame callback or transition left over from before it calls
\* transitionToStep, schedules a timer or changes a layer.
C6_NothingRunsAfterDestroy ==
    [][~viz.svgAttached
         => /\ ~viz.listening
            /\ hist'.last.op \in {"frame", "timer", "transitionEnd"}
                  => /\ hist'.calls = hist.calls
                     /\ viz'.layers = viz.layers
                     /\ win'.timers \subseteq win.timers]_vars

\* C9: the layers never hold elements drawn for two different steps, nor
\* by two different transitions.
C9_LayersOfOneStep ==
    \A e, f \in AllElements : e.step = f.step /\ e.call = f.call

\* Step 2 was drawn over an earlier view by two renderers, and its
\* elements are the only ones in the layers.
C9_Witness ==
    /\ hist.calls >= 2
    /\ viz.currentStep = 2
    /\ {e.by : e \in AllElements} = {"renderScatter", "highlightEurope"}
    /\ \E e \in viz.layers.annotationGroup : e.call = hist.calls

\* ------------------------------------------------------------------------
\* Claims about the scroll controller
\* ------------------------------------------------------------------------
\* The positions of the animation-frame callback list that hold a run of the
\* step resolver, of either controller.
PendingUpdates ==
    {i \in 1..Len(win.rafQueue) :
        win.rafQueue[i].cb \in {"updateOnScroll", "updateOnScrollPosition"}}

\* C7: however many scroll and resize events fire between two animation
\* frames, at most one updateOnScroll callback is pending at any time, so
\* the step resolver runs at most once in the next frame.
C7_OneUpdatePending == Cardinality(PendingUpdates) <= 1

\* A resize event arrived while a callback was already pending: the frame
\* the visualization requested for it comes after the pending callback in
\* the list, and that callback is the only one of its kind still.
C7_Witness ==
    /\ hist.last.op = "windowResize"
    /\ ctl.listening /\ ctl.ticking
    /\ Len(win.rafQueue) = 2
    /\ win.rafQueue[1].cb = "updateOnScroll"
    /\ win.rafQueue[2].cb = "resizeRender"

\* C8: the step selected does not depend on the history of scroll and
\* resize events, only on the step geometry they end with.  A controller
\* whose first frame runs on a geometry ends with currentStep 0 changed to
\* what pickActiveStep returns for it, so every history of scroll and resize
\* events ending with that geometry must: once the last animation frame has
\* run, currentStep is pickActiveStep of the geometry.
C8_StepDependsOnGeometryOnly ==
    (/\ ctl.kind = "scroll" /\ ctl.listening /\ ~hist.wentTo
     /\ ~ctl.ticking /\ PendingUpdates = {})
        => ctl.currentStep = pickActiveStep(rects, innerHeight)

\* ------------------------------------------------------------------------
\* Claims about the theme
\* ------------------------------------------------------------------------
\* C10: every visualization module re-renders with freshly read theme
\* tokens whenever the class attribute of document.body is mutated: once
\* the mutation observers have been notified, what each of the four plots
\* and the scrollytelling visualization shows is drawn in the colours of
\* the theme the body has now.
C10_EveryModuleFollowsTheme ==
    (\A p \in DOMAIN plots : plots[p].records = <<>>)
        => /\ \A p \in DOMAIN plots :
                 \A i \in 1..Len(plots[p].content) :
                     plots[p].content[i].colors = getComputedStyle(World)
           /\ \A e \in AllElements : e.primary = getComputedStyle(World)

\* ------------------------------------------------------------------------
\* Claims about the initializers and the plot handles
\* ------------------------------------------------------------------------
\* Module m has left nothing behind: nothing in its container, no observer,
\* no listener, no timer, no animation-frame callback.
NothingSetUp(m) ==
    IF m = VizId
    THEN /\ ~viz.svgAttached /\ ~viz.listening /\ AllElements = {}
         /\ win.timers = {} /\ win.rafQueue = <<>>
    ELSE plots[m] = EmptyPlot

\* The messages module m has sent to console.error.
ErrorsOf(m) == {i \in 1..Len(win.console) : win.console[i] = m}

\* C11: when its container is missing, every initializer (renderDummyPlot,
\* renderPlot2, renderPlot3, renderPlot4, initVisualization) returns
\* silently: it logs nothing, draws nothing, and registers no listener,
\* observer, timer or animation-frame callback.
C11_MissingContainerIsSilent ==
    \A m \in DOMAIN load.phase :
        m \notin load.containers => (ErrorsOf(m) = {} /\ NothingSetUp(m))

\* C11, amended: when its container is missing, every initializer returns
\* without drawing anything and without registering a listener, observer,
\* timer or animation-frame callback; the four plot initializers log
\* nothing, initVisualization logs one error.
C11_MissingContainerIsNoOp ==
    \A m \in DOMAIN load.phase :
        m \notin load.containers
            => /\ NothingSetUp(m)
               /\ Cardinality(ErrorsOf(m)) = IF m = VizId THEN 1 ELSE 0

\* The visualization and a plot found no container, another plot was
\* rendered and has redrawn on a theme change since.
C11_Witness ==
    /\ load.phase[VizId] = "returned"
    /\ \E p, q \in PlotIds :
          /\ load.phase[p] = "returned"
          /\ load.phase[q] = "ready"
          /\ plots[q].content # <<>>
    /\ hist.last.op = "mutationsDelivered"

\* C12: when the import of D3 fails, every initializer logs an error and
\* gives up: it draws nothing, registers no observer or listener, and
\* import() is not called again.
C12_FailedImportIsLogged ==
    \A m \in DOMAIN load.phase :
        load.phase[m] = "failed"
            => /\ Cardinality(ErrorsOf(m)) = 1
               /\ NothingSetUp(m)
               /\ load.imports = Cardinality(load.containers)

\* C14: once destroy() of a section-1 plot handle has run, both observers of
\* the plot are disconnected and its container is empty, and they stay so
\* whatever container resize or body class mutation is delivered later.
C14_DestroyedPlotStaysEmpty ==
    \A p \in hist.destroyed :
        /\ plots[p].content = <<>>
        /\ ~plots[p].resizeObserving
        /\ ~plots[p].themeObserving

\* A plot is destroyed, and a delivery to the observers has just drawn
\* another plot.
C14_Witness ==
    /\ hist.destroyed # {}
    /\ hist.last.op \in {"mutationsDelivered", "resizesDelivered"}
    /\ \E q \in DOMAIN plots \ hist.destroyed : plots[q].content # <<>>

\* C15: a burst of resize calls leaves at most one re-render frame pending,
\* and once the frame after a resize has run on a live visualization, the
\* view on display is the one of the step current at that moment, drawn at
\* the new dimensions, in every state, the initial one (no step yet)
\* included.  For step 6, whose summary is drawn by a timer, the timer of
\* the re-render is pending instead.
C15_ResizeRerendersCurrentView ==
    /\ Cardinality({i \in 1..Len(win.rafQueue) : win.rafQueue[i].cb = "resizeRender"}) <= 1
    /\ (hist.last.op = "frame" /\ viz.svgAttached) =>
          IF viz.currentStep = 6
          THEN \E t \in win.timers :
                  t.tokenAtSchedule = viz.transitionToken /\ t.step = 6
          ELSE \A e \in AllElements :
                  e.innerWidth = viz.innerWidth /\ e.step = viz.currentStep

\* C16: when transitionToStep(n) returns, the current step is n and, for
\* every n but 6, the layers hold the view of step n drawn by this call.
\* For step 6 the call leaves the layers as they were, their transitions
\* interrupted, with a zero-delay timer pending; when a timer draws the
\* summary no other transitionToStep call was made since the one that
\* scheduled it, and destroy() leaves no timer behind.
C16_TransitionToStepOutcome ==
    /\ [](hist.last.op = "transitionToStep" =>
             /\ viz.currentStep = hist.requested
             /\ hist.requested # 6 =>
                   /\ {e.by : e \in AllElements} = RenderersOf(hist.requested)
                   /\ \A e \in AllElements :
                         e.step = hist.requested /\ e.call = hist.calls)
    /\ [][(/\ hist'.last.op = "transitionToStep"
           /\ hist'.calls = hist.calls + 1
           /\ hist'.requested = 6)
          => /\ viz'.layers = [l \in DOMAIN viz.layers |->
                                  {[e EXCEPT !.anim = 0] : e \in viz.layers[l]}]
             /\ \E t \in win'.timers :
                   t.ms = 0 /\ t.tokenAtSchedule = viz'.transitionToken]_vars
    /\ []((hist.last.op = "timer" /\ hist.last.ran) =>
             /\ hist.last.call = hist.calls
             /\ {e.by : e \in AllElements} = RenderersOf(6)
             /\ \A e \in AllElements : e.step = 6 /\ e.call = hist.calls)
    /\ [][(viz.svgAttached /\ ~viz'.svgAttached) => win'.timers = {}]_vars

\* transitionToStep(6) has returned after a call for step 3: the histogram
\* is still in the layers and the timer of the summary is pending.
C16_Witness ==
    /\ hist.last.op = "transitionToStep"
    /\ hist.requested = 6
    /\ win.timers # {}
    /\ AllElements # {}
    /\ \A e \in AllElements : e.step = 3 /\ e.anim = 0

\* ------------------------------------------------------------------------
\* Claims about updateStep
\* ------------------------------------------------------------------------
\* C17: after any updateStep / goToStep calls, a .scrolly-step element
\* carries is-active if and only if its data-step is the controller's
\* currentStep; when the step numbers are distinct at most one is active.
C17_ActiveClassFollowsCurrentStep ==
    (ctl.kind = "scroll" /\ hist.lastEvent.any) =>
        /\ \A i \in 1..Len(rects) :
              ctl.isActive[i] <=> (ParseInt(rects[i].dataStep) = Num(ctl.currentStep))
        /\ (\A i, j \in NumericSteps : i # j => StepNumOf(i) # StepNumOf(j))
              => Cardinality({i \in 1..Len(rects) : ctl.isActive[i]}) <= 1

\* goToStep(6) was called when step 2 was current: the step with data-step 6
\* is the one active element.
C17_Witness ==
    /\ hist.last.op = "goToStep"
    /\ hist.lastEvent.previousStep = 2
    /\ ctl.currentStep = 6
    /\ \E i \in 1..Len(rects) :
          /\ rects[i].dataStep = <<"6">>
          /\ {j \in 1..Len(rects) : ctl.isActive[j]} = {i}

\* C18: after every updateStep the legend carries is-visible if and only if
\* the current step is between 2 and 5 inclusive.
C18_LegendVisibleFromTwoToFive ==
    (ctl.kind = "scroll" /\ hist.lastEvent.any) =>
        (ctl.legendVisible <=> ctl.currentStep \in 2..5)

\* The step moved from 2 to 6 and the legend is hidden again.
C18_Witness ==
    /\ hist.lastEvent.any
    /\ hist.lastEvent.previousStep = 2
    /\ hist.lastEvent.step = 6
    /\ ctl.currentStep = 6
    /\ ~ctl.legendVisible

C20_FrameChangesNothing ==
    [][(/\ hist'.last.op = "frame"
        /\ ctl.kind = "scroll"
        /\ \E i \in 1..Len(win.rafQueue) : win.rafQueue[i].cb = "updateOnScroll")
       => /\ pickActiveStep(rects, innerHeight) \in {0, ctl.currentStep} =>
                /\ ctl' = [ctl EXCEPT !.ticking = FALSE]
                /\ hist'.lastEvent = hist.lastEvent
                /\ viz' = viz /\ hist'.calls = hist.calls
          /\ hist'.lastEvent.odd # hist.lastEvent.odd =>
                /\ hist'.lastEvent.step # ctl.currentStep
                /\ hist'.lastEvent.step # hist'.lastEvent.previousStep]_vars

\* C20, amended: such a frame leaves currentStep, the is-active classes and
\* the legend as they were and dispatches no event; the visualization is
\* unchanged and no transitionToStep call is made unless the re-render a
\* resize asked for runs in the same frame.  Hence a scroll-driven
\* transition never targets the step that is current.
C20_SameStepFrameChangesNothing ==
    [][(/\ hist'.last.op = "frame"
        /\ ctl.kind = "scroll"
        /\ \E i \in 1..Len(win.rafQueue) : win.rafQueue[i].cb = "updateOnScroll")
       => /\ pickActiveStep(rects, innerHeight) \in {0, ctl.currentStep} =>
                /\ ctl' = [ctl EXCEPT !.ticking = FALSE]
                /\ hist'.lastEvent = hist.lastEvent
                /\ (\A i \in 1..Len(win.rafQueue) : win.rafQueue[i].cb # "resizeRender")
                      => viz' = viz /\ hist'.calls = hist.calls
          /\ hist'.lastEvent.odd # hist.lastEvent.odd =>
                /\ hist'.lastEvent.step # ctl.currentStep
                /\ hist'.lastEvent.step # hist'.lastEvent.previousStep]_vars

\* A frame has run updateOnScroll with step 2 current and the step with
\* data-step 0 at the viewport middle: pickActiveStep returned 0 and step 2
\* is still current.
C20_Witness ==
    /\ hist.last.op = "frame"
    /\ ctl.kind = "scroll" /\ ctl.listening /\ ~ctl.ticking
    /\ pickActiveStep(rects, innerHeight) = 0
    /\ ctl.currentStep = 2
    /\ hist.lastEvent.step = 2

\* ------------------------------------------------------------------------
\* Claims about the force-layout page
\* ------------------------------------------------------------------------
\* C13: whenever the alert has been shown, initVis has created no circles
\* and no simulation and the scroller is not set up; and when loading
\* data.csv failed, the alert has been shown exactly once.
C13_AlertMeansHalted ==
    /\ force.alerts > 0 =>
          /\ force.circles = <<>>
          /\ ~force.simulation.created
          /\ ~force.scroller
    /\ force.csv = "failed" => force.alerts = 1
\* ------------------------------------------------------------------------
\* Claims about the throttle of the scroll controller
\* ------------------------------------------------------------------------
\* C22: in every reachable state of initScrollController, ticking is true
\* exactly when one updateOnScroll callback is queued for the next animation
\* frame, also after a frame in which visualization.transitionToStep throws.
C22_TickingMeansOnePending ==
    ctl.kind = "scroll" =>
        (ctl.ticking <=>
            Cardinality({i \in 1..Len(win.rafQueue) :
                            win.rafQueue[i].cb = "updateOnScroll"}) = 1)
\* C21: no scroll position is lost to throttling.  Every scroll or resize
\* event the controller listens to leaves an updateOnScroll callback queued
\* for the next animation frame, which reads the geometry of that moment; so
\* when no callback is left to run, currentStep is what pickActiveStep
\* returns for the geometry, whenever that is not 0 (and goToStep did not
\* set another step).
C21_NoScrollPositionLost ==
    (ctl.kind = "scroll" /\ ctl.listening) =>
        /\ hist.last.op \in {"scroll", "windowResize"} =>
              \E i \in 1..Len(win.rafQueue) : win.rafQueue[i].cb = "updateOnScroll"
        /\ (/\ ~hist.wentTo
            /\ \A i \in 1..Len(win.rafQueue) : win.rafQueue[i].cb # "updateOnScroll"
            /\ pickActiveStep(rects, innerHeight) # 0)
              => ctl.currentStep = pickActiveStep(rects, innerHeight)
\* C23: once destroy() of the scroll controller has returned, no scroll,
\* resize or animation frame, a frame with an updateOnScroll callback queued
\* before destroy() included, changes currentStep, makes the controller
\* call visualization.transitionToStep or dispatches scrolly-step-change.
C23_NothingAfterControllerDestroy ==
    [][(/\ ctl.kind = "scroll" /\ ~ctl.listening
        /\ hist'.last.op \in {"scroll", "windowResize", "frame"})
       => /\ ctl'.currentStep = ctl.currentStep
          /\ hist'.lastEvent = hist.lastEvent
          /\ (\A i \in 1..Len(win.rafQueue) : win.rafQueue[i].cb # "resizeRender")
                => hist'.calls = hist.calls]_vars

\* ------------------------------------------------------------------------
\* Claims about the timers of the visualization
\* ------------------------------------------------------------------------
\* C24: in every reachable state pendingTimeouts holds exactly the ids of
\* the timers that are neither fired nor cleared, every one of them was
\* scheduled under the current transitionToken, and a timer that fires
\* finds its captured token equal to transitionToken and runs its fn.
C24_PendingTimeoutsAreCurrent ==
    /\ viz.pendingTimeouts = {t.id : t \in win.timers}
    /\ \A t \in win.timers : t.tokenAtSchedule = viz.transitionToken
    /\ hist.last.op = "timer" =>
          hist.last.ran /\ hist.last.token = viz.transitionToken

\* transitionToStep(6) was called twice: the timer of the first call was
\* cleared, the one pending is the second call's.
C24_Witness ==
    /\ hist.last.op = "transitionToStep"
    /\ hist.calls = 2 /\ hist.requested = 6
    /\ viz.transitionToken = 2
    /\ Cardinality(win.timers) = 1
    /\ \A t \in win.timers : t.call = 2 /\ t.id \in viz.pendingTimeouts

====
